---- MODULE Spec2Model ----
(***************************************************************************)
(* A model of src/main.py: the four FastAPI handlers that proxy the GitHub *)
(* REST and GraphQL APIs.  One behaviour is one inbound request.  Every    *)
(* requests.get / requests.post of the handler is a step whose outcome the *)
(* upstream chooses: an HTTP response (status code and JSON body), a       *)
(* transport error (requests raises), or no answer at all (the calls pass  *)
(* no timeout, so the handler stays inside the call).  Every body is a    *)
(* JSON document, as the Accept header of the calls asks for.              *)
(*                                                                         *)
(* JSON values are tagged records, so that a key that is absent, a key     *)
(* whose value is null and a key with a value are three different things,  *)
(* as they are for dict.get.  Strings are sequences of characters, so that *)
(* str.lower() and the substring test are computed, not assumed.           *)
(***************************************************************************)
EXTENDS Naturals, Sequences, FiniteSets, TLC

VARIABLES
    op,                    \* the handler that serves the request
    project_title_filter,  \* query parameter of get_repo_project_todo_items
    pc,                    \* where the handler is
    commits,               \* commits_res.json()
    i,                     \* position of the for loop over commits
    result,                \* the list the commit handlers build
    project_nodes,         \* the project list of the first GraphQL query
    selected_project,      \* the project the resolver selected
    upstream,              \* the last answer of the upstream
    calls,                 \* every upstream call issued, in order
    response               \* what the request ends with

vars == <<op, project_title_filter, pc, commits, i, result, project_nodes,
          selected_project, upstream, calls, response>>

(***************************************************************************)
(* Bounds of the model.                                                    *)
(***************************************************************************)
MaxCommits == 2
MaxFiles == 2
MaxProjects == 2
MaxItems == 2
MaxFieldValues == 2

(***************************************************************************)
(* JSON values and the Python operations the handlers apply to them.       *)
(***************************************************************************)
Null == [t |-> "null"]
Str(s) == [t |-> "str", v |-> s]
List(q) == [t |-> "list", v |-> q]
Obj(r) == [t |-> "obj", v |-> r]
Num(n) == [t |-> "num", v |-> n]
EmptyObj == Obj([k \in {} |-> Null])
EmptyStr == Str(<<>>)
\* The result of an expression that raises (AttributeError, TypeError, KeyError).
Raise == [t |-> "raise"]

\* d.get(key, default); d.get(key) is Get(d, key, Null).
Get(d, key, default) ==
    IF d.t = "obj"
    THEN IF key \in DOMAIN d.v THEN d.v[key] ELSE default
    ELSE Raise

\* d[key]
Index(d, key) ==
    IF d.t = "obj" /\ key \in DOMAIN d.v THEN d.v[key] ELSE Raise

\* bool(v)
Truthy(v) ==
    CASE v.t = "null" -> FALSE
      [] v.t = "str" -> v.v /= <<>>
      [] v.t = "list" -> v.v /= <<>>
      [] v.t = "obj" -> DOMAIN v.v /= {}
      [] OTHER -> TRUE

UpperChars == <<"A", "B", "D", "I", "O", "P", "R", "S", "T", "U">>
LowerChars == <<"a", "b", "d", "i", "o", "p", "r", "s", "t", "u">>

\* one character of str.lower()
LowerChar(c) ==
    IF \E n \in 1..Len(UpperChars) : UpperChars[n] = c
    THEN LowerChars[CHOOSE n \in 1..Len(UpperChars) : UpperChars[n] = c]
    ELSE c

\* s.lower()
Lower(s) ==
    IF s.t = "str" THEN Str([n \in 1..Len(s.v) |-> LowerChar(s.v[n])]) ELSE Raise

\* sub in s
Contains(sub, s) ==
    \E off \in 0..Len(s.v) :
        /\ off + Len(sub.v) <= Len(s.v)
        /\ SubSeq(s.v, off + 1, off + Len(sub.v)) = sub.v

\* All sequences over S of length 0..n.
SeqUpTo(S, n) == UNION {[1..k -> S] : k \in 0..n}

(***************************************************************************)
(* What the upstream can answer.                                           *)
(***************************************************************************)
Statuses == {200, 201, 403}
ErrorBodies == {Obj([message |-> Str(<<"rate limit exceeded">>)]),
                Obj([message |-> Str(<<"Not Found">>)])}

\* An answer with a status code and a JSON body.
Responses(okBodies) ==
    {[net |-> "response", status |-> 200, body |-> b] : b \in okBodies}
    \cup {[net |-> "response", status |-> s, body |-> b] :
             s \in Statuses \ {200}, b \in ErrorBodies}

\* requests raises (connection refused, reset, DNS failure).
TransportError == [net |-> "error", status |-> 0, body |-> Null]
\* The upstream accepts the connection and never answers.
NoAnswer == [net |-> "silent", status |-> 0, body |-> Null]

Outcomes(okBodies) == Responses(okBodies) \cup {TransportError, NoAnswer}

\* The empty function, and a key that is absent or has one of vals.
NoKeys == [k \in {} |-> Null]
Opt(key, vals) == {NoKeys} \cup {key :> v : v \in vals}

Sha(n) == Str(<<"sha", ToString(n)>>)
CommitInfo(n) == Obj([message |-> Str(<<"msg", ToString(n)>>)])
AuthorInfo(n) == Obj([login |-> Str(<<"dev", ToString(n)>>)])

\* The record at position n of the commit list: with its sha, with an empty
\* sha, or with none.
CommitRecord(n, shape) ==
    Obj((CASE shape = "sha" -> [sha |-> Sha(n)]
           [] shape = "empty sha" -> [sha |-> EmptyStr]
           [] OTHER -> NoKeys)
        @@ [commit |-> CommitInfo(n), author |-> AuthorInfo(n)])

\* The list of the records of the given shapes.
RECURSIVE CommitSeq(_, _)
CommitSeq(shapes, n) ==
    IF n = 0 THEN <<>> ELSE Append(CommitSeq(shapes, n - 1), CommitRecord(n, shapes[n]))

CommitLists ==
    {List(CommitSeq(q, Len(q))) : q \in SeqUpTo({"sha", "empty sha", "no sha"}, MaxCommits)}

FileName(n) == Str(<<"file", ToString(n)>>)
Patch == Str(<<"@@ -1 +1 @@">>)

\* The file at position n of a commit detail, its patch absent or given.
File(n, patch) == Obj(patch @@ [filename |-> FileName(n)])

RECURSIVE FileSeq(_, _)
FileSeq(shapes, n) ==
    IF n = 0 THEN <<>> ELSE Append(FileSeq(shapes, n - 1), File(n, shapes[n]))

FileLists(maxLen, patches) ==
    {List(FileSeq(q, Len(q))) : q \in SeqUpTo(Opt("patch", patches), maxLen)}

DetailMessage == Str(<<"fix bug">>)

\* Commit details of the whole-request specification: each of the two keys
\* the handlers read is absent, null or present.
DetailBodies ==
    {Obj(c @@ f) :
        c \in Opt("commit", {Null, Obj([message |-> DetailMessage])}),
        f \in Opt("files", {Null} \cup FileLists(1, {Patch}))}

\* Commit details of the patch-extraction specification: every shape of the
\* nested message and of the file list.
PatchDetailBodies ==
    {Obj(c @@ f) :
        c \in Opt("commit", {EmptyObj, Obj([message |-> Null]),
                             Obj([message |-> DetailMessage])}),
        f \in Opt("files", FileLists(MaxFiles, {Null, EmptyStr, Patch}))}

(***************************************************************************)
(* What a request ends with.                                               *)
(***************************************************************************)
NoResponse == [kind |-> "none", status_code |-> 0, detail |-> Null]
\* return value: FastAPI answers 200 with the value as JSON
Ok(value) == [kind |-> "ok", status_code |-> 200, detail |-> value]
\* raise HTTPException(status_code=..., detail=...)
HTTPException(status_code, detail) ==
    [kind |-> "HTTPException", status_code |-> status_code, detail |-> detail]
\* an exception no handler catches: FastAPI answers 500
Unhandled == [kind |-> "unhandled", status_code |-> 500, detail |-> Null]

\* A variant that takes every 2xx status for a success.
StatusOk2xx(status) == status \in 200..299

\* status_code != 200 is the test of every call site
StatusOk(status) == status = 200

\* A variant that answers every upstream failure with status 500.
UpstreamError500(res) == HTTPException(500, res.body)

\* raise HTTPException(status_code=res.status_code, detail=res.json())
UpstreamError(res) == HTTPException(res.status, res.body)

Call(kind, arg, r) == [kind |-> kind, arg |-> arg, net |-> r.net, status |-> r.status]

CommitOps == {"get_commits_raw", "get_commits_with_diff", "get_commit_messages_and_changes"}
AggregateOps == {"get_commits_with_diff", "get_commit_messages_and_changes"}
AllOps == CommitOps \cup {"get_repo_project_todo_items"}

(***************************************************************************)
(* get_commits_raw                                                         *)
(***************************************************************************)
GetCommitsRaw ==
    /\ pc = "start"
    /\ op = "get_commits_raw"
    /\ \E r \in Outcomes(CommitLists) :
        /\ calls' = Append(calls, Call("list", Null, r))
        /\ upstream' = r
        /\ CASE r.net = "silent" -> pc' = "blocked" /\ response' = response
             [] r.net = "error" -> pc' = "done" /\ response' = Unhandled
             [] OTHER ->
                  /\ pc' = "done"
                  /\ response' = IF StatusOk(r.status) THEN Ok(r.body) ELSE UpstreamError(r)
    /\ UNCHANGED <<op, project_title_filter, commits, i, result, project_nodes,
                   selected_project>>

(***************************************************************************)
(* get_commits_with_diff and get_commit_messages_and_changes               *)
(***************************************************************************)
\* The list fetch and its status test, the same code in both handlers.
FetchCommitList(handler) ==
    /\ pc = "start"
    /\ op = handler
    /\ \E r \in Outcomes(CommitLists) :
        /\ calls' = Append(calls, Call("list", Null, r))
        /\ upstream' = r
        /\ CASE r.net = "silent" ->
                  pc' = "blocked" /\ UNCHANGED <<response, commits, i, result>>
             [] r.net = "error" ->
                  pc' = "done" /\ response' = Unhandled /\ UNCHANGED <<commits, i, result>>
             [] r.net = "response" /\ ~StatusOk(r.status) ->
                  /\ pc' = "done"
                  /\ response' = UpstreamError(r)
                  /\ UNCHANGED <<commits, i, result>>
             [] OTHER ->
                  /\ pc' = "loop"
                  /\ commits' = r.body
                  /\ i' = 1
                  /\ result' = <<>>
                  /\ response' = response
    /\ UNCHANGED <<op, project_title_filter, project_nodes, selected_project>>

\* The entry get_commits_with_diff appends for a commit and its detail.
DiffEntry(commit, sha, detail) ==
    LET files == Get(detail, "files", List(<<>>))
    IN  IF files.t = "raise" THEN Raise
        ELSE Obj([sha |-> sha,
                  commit |-> Get(commit, "commit", Null),
                  author |-> Get(commit, "author", Null),
                  files |-> files])

\* A variant that tests patch is not None.
HasPatchNotNone(patch) == patch.t /= "null"

\* if patch:
HasPatch(patch) == Truthy(patch)

\* The for loop over detail["files"] of get_commit_messages_and_changes:
\* the list patches, or Raise.
RECURSIVE PatchesOf(_)
PatchesOf(files) ==
    IF files = <<>> THEN List(<<>>)
    ELSE LET file == Head(files)
             patch == Get(file, "patch", Null)
             filename == Get(file, "filename", Null)
             rest == PatchesOf(Tail(files))
         IN  IF patch.t = "raise" \/ rest.t = "raise" THEN Raise
             ELSE IF HasPatch(patch)
                  THEN List(<<Obj([filename |-> filename, patch |-> patch])>> \o rest.v)
                  ELSE rest

\* The entry get_commit_messages_and_changes appends for a commit detail.
MessageEntry(commit, sha, detail) ==
    LET message == Get(Get(detail, "commit", EmptyObj), "message", EmptyStr)
        files == Get(detail, "files", List(<<>>))
    IN  IF message.t = "raise" \/ files.t /= "list" THEN Raise
        ELSE LET patches == PatchesOf(files.v)
             IN  IF patches.t = "raise" THEN Raise
                 ELSE Obj([message |-> message, changes |-> patches])

Entry(handler, commit, sha, detail) ==
    IF handler = "get_commits_with_diff"
    THEN DiffEntry(commit, sha, detail)
    ELSE MessageEntry(commit, sha, detail)

\* A variant that puts the new entry first.
ResultPrepend(res, entry) == <<entry>> \o res

\* result.append(entry)
ResultAppend(res, entry) == Append(res, entry)

\* A variant that stays on a commit whose detail fetch failed.
NextCommitRetry(n, status) == IF status = 200 THEN n + 1 ELSE n

\* the for loop moves on to the next commit, whatever the detail fetch did
NextCommit(n, status) == n + 1

\* One iteration of the for loop over commits. Iterating a body that is
\* no list gives no commit record: a dict gives its keys, and key.get raises.
FetchDetail(handler, bodies) ==
    /\ pc = "loop"
    /\ op = handler
    /\ commits.t = "list" => i <= Len(commits.v)
    /\ LET commit == IF commits.t = "list" THEN commits.v[i] ELSE Str(<<"message">>)
           sha == Get(commit, "sha", Null)
       IN  IF sha.t = "raise"
           THEN /\ pc' = "done"
                /\ response' = Unhandled
                /\ UNCHANGED <<i, result, upstream, calls>>
           ELSE IF ~Truthy(sha)
           THEN /\ i' = i + 1
                /\ UNCHANGED <<pc, result, upstream, calls, response>>
           ELSE \E r \in Outcomes(bodies) :
                /\ calls' = Append(calls, Call("detail", sha, r))
                /\ upstream' = r
                /\ CASE r.net = "silent" ->
                          pc' = "blocked" /\ UNCHANGED <<i, result, response>>
                     [] r.net = "error" ->
                          pc' = "done" /\ response' = Unhandled /\ UNCHANGED <<i, result>>
                     [] r.net = "response" /\ ~StatusOk(r.status) ->
                          /\ i' = NextCommit(i, r.status)
                          /\ UNCHANGED <<pc, result, response>>
                     [] OTHER ->
                          LET entry == Entry(handler, commit, sha, r.body)
                          IN  IF entry.t = "raise"
                              THEN pc' = "done" /\ response' = Unhandled
                                   /\ UNCHANGED <<i, result>>
                              ELSE /\ result' = ResultAppend(result, entry)
                                   /\ i' = NextCommit(i, r.status)
                                   /\ UNCHANGED <<pc, response>>
    /\ UNCHANGED <<op, project_title_filter, commits, project_nodes, selected_project>>

\* return result
ReturnResult ==
    /\ pc = "loop"
    /\ commits.t = "list"
    /\ i > Len(commits.v)
    /\ pc' = "done"
    /\ response' = Ok(List(result))
    /\ UNCHANGED <<op, project_title_filter, commits, i, result, project_nodes,
                   selected_project, upstream, calls>>

ListForDiff == FetchCommitList("get_commits_with_diff")
ListForMessages == FetchCommitList("get_commit_messages_and_changes")
DetailForDiff == FetchDetail("get_commits_with_diff", DetailBodies)
DetailForMessages == FetchDetail("get_commit_messages_and_changes", DetailBodies)

(***************************************************************************)
(* get_repo_project_todo_items: what the two GraphQL queries can answer.   *)
(***************************************************************************)
\* A key that is absent, null, or an object with the keys of one of inner.
Nested(key, inner) == Opt(key, {Null} \cup {Obj(x) : x \in inner})

Roadmap == <<"R", "o", "a", "d">>
Sprint == <<"S", "p", "r", "i", "n", "t">>
Board == <<"B", "o", "a", "r", "d">>
Titles == {Roadmap, Sprint, Board}
\* project_title_filter: not given, empty, matching by case only, matching two
\* titles, matching none
TitleFilters == {Null, EmptyStr, Str(<<"s", "p", "r", "i", "n", "t">>),
                 Str(<<"O", "A">>), Str(<<"x">>)}

ProjectId(n) == Str(<<"PVT_", ToString(n)>>)
ProjectNode(n, title) == Obj([id |-> ProjectId(n), title |-> Str(title)])

RECURSIVE ProjectSeq(_, _)
ProjectSeq(titles, n) ==
    IF n = 0 THEN <<>> ELSE Append(ProjectSeq(titles, n - 1), ProjectNode(n, titles[n]))

ProjectLists == {List(ProjectSeq(q, Len(q))) : q \in SeqUpTo(Titles, MaxProjects)}

\* data.repository.projectsV2.nodes, every level absent, null or present.
ProjectBodies ==
    {Obj(d) : d \in Nested("data", Nested("repository", Nested("projectsV2",
                        Opt("nodes", {Null} \cup ProjectLists))))}

Status == <<"S", "t", "a", "t", "u", "s">>
Priority == <<"P", "r", "i", "o", "r", "i", "t", "y">>
Todo == <<"T", "o", "d", "o">>
TodoLower == <<"t", "o", "d", "o">>

ItemId(n) == Str(<<"PVTI_", ToString(n)>>)
Content(n) ==
    Obj([title |-> Str(<<"issue", ToString(n)>>), number |-> Num(n),
         state |-> Str(<<"OPEN">>), url |-> Str(<<"https://github.com/o/r/issues/", ToString(n)>>)])

\* A single-select field value: the field's name and the selected option.
FieldValue(field, option) == Obj([field |-> Obj([name |-> Str(field)]), name |-> Str(option)])

\* The field values of the Todo-filter specification: the Status field set
\* to "Todo", the Status field set to another option, and another field set
\* to "Todo".
TodoFieldValues ==
    {FieldValue(Status, Todo), FieldValue(Status, TodoLower), FieldValue(Priority, Todo)}

\* The field values of the whole-request specification: every key absent,
\* null or present.
FieldValues ==
    {Obj(f @@ o) :
        f \in Opt("field", {Null, EmptyObj, Obj([name |-> Null]),
                            Obj([name |-> Str(<<"S", "T", "A", "T", "U", "S">>)])}),
        o \in Opt("name", {Str(Todo)})}

\* The item at position n: its content absent, null or an issue, and its
\* fieldValues key.
Item(n, shape) ==
    Obj([id |-> ItemId(n)]
        @@ (CASE shape.content = "issue" -> [content |-> Content(n)]
              [] shape.content = "null" -> [content |-> Null]
              [] OTHER -> NoKeys)
        @@ shape.fieldValues)

RECURSIVE ItemSeq(_, _)
ItemSeq(shapes, n) ==
    IF n = 0 THEN <<>> ELSE Append(ItemSeq(shapes, n - 1), Item(n, shapes[n]))

ItemLists(maxLen, contents, fieldValueLevels) ==
    {List(ItemSeq(q, Len(q))) :
        q \in SeqUpTo([content : contents, fieldValues : fieldValueLevels], maxLen)}

\* data.node.items.nodes over the given item lists, with the project title.
ItemBodiesOver(titles, itemsLevels) ==
    {Obj(d) : d \in Nested("data", Nested("node",
                        {t @@ it : t \in titles, it \in itemsLevels}))}

\* Item documents of the whole-request specification: at most one item, and
\* every level absent, null or present.
ItemBodies ==
    ItemBodiesOver(
        Opt("title", {Null, Str(Sprint)}),
        Nested("items", Opt("nodes", {Null} \cup
            ItemLists(1, {"absent", "null", "issue"},
                      Nested("fieldValues",
                             Opt("nodes", {Null} \cup
                                 {List(q) : q \in SeqUpTo(FieldValues, 1)}))))))

\* Item documents of the Todo-filter specification: well-formed lists of
\* items with their field values.
TodoItemBodies ==
    {Obj([data |-> Obj([node |-> Obj([title |-> Str(Sprint),
                                       items |-> Obj([nodes |-> l])])])]) :
        l \in ItemLists(MaxItems, {"issue"},
                        {[fieldValues |-> Obj([nodes |-> List(q)])] :
                            q \in SeqUpTo(TodoFieldValues, MaxFieldValues)})}

NoProjectMessage == Str(<<"no Project v2 is linked to the repository">>)
NoMatchMessage(filter) == Str(<<"no project matches ">> \o filter.v)

(***************************************************************************)
(* get_repo_project_todo_items                                             *)
(***************************************************************************)
\* project_res.json().get("data", {}).get("repository", {})
\*     .get("projectsV2", {}).get("nodes", [])
ProjectNodesOf(body) ==
    Get(Get(Get(Get(body, "data", EmptyObj), "repository", EmptyObj),
            "projectsV2", EmptyObj), "nodes", List(<<>>))

\* A variant that compares without lower().
TitleMatchesExactCase(filter, p) ==
    LET title == Index(p, "title")
    IN  IF title.t /= "str" THEN Raise
        ELSE IF Contains(filter, title) THEN Str(<<"True">>) ELSE Null

\* project_title_filter.lower() in p["title"].lower()
TitleMatches(filter, p) ==
    LET title == Lower(Index(p, "title"))
    IN  IF title.t = "raise" THEN Raise
        ELSE IF Contains(Lower(filter), title) THEN Str(<<"True">>) ELSE Null

\* The for loop with its break: the first project whose title matches, Null
\* when the loop ends without one, Raise when a title cannot be read.
RECURSIVE FirstMatch(_, _)
FirstMatch(filter, nodes) ==
    IF nodes = <<>> THEN Null
    ELSE LET m == TitleMatches(filter, Head(nodes))
         IN  IF m.t = "raise" THEN Raise
             ELSE IF Truthy(m) THEN Head(nodes)
             ELSE FirstMatch(filter, Tail(nodes))

\* Lines 192-207: what the project list resolves to. Either the handler
\* goes on with a selected project, or the request ends.
Resolve(filter, nodes) ==
    IF nodes.t = "raise" THEN [end |-> TRUE, response |-> Unhandled, project |-> Null]
    ELSE IF ~Truthy(nodes)
    THEN [end |-> TRUE, response |-> HTTPException(404, NoProjectMessage), project |-> Null]
    ELSE IF nodes.t /= "list"
    THEN [end |-> TRUE, response |-> Unhandled, project |-> Null]
    ELSE LET selected == IF Truthy(filter) THEN FirstMatch(filter, nodes.v) ELSE nodes.v[1]
         IN  IF selected.t = "raise"
             THEN [end |-> TRUE, response |-> Unhandled, project |-> Null]
             ELSE IF Truthy(filter) /\ ~Truthy(selected)
             THEN [end |-> TRUE, response |-> HTTPException(404, NoMatchMessage(filter)),
                   project |-> Null]
             ELSE IF Index(selected, "id").t = "raise"
             THEN [end |-> TRUE, response |-> Unhandled, project |-> Null]
             ELSE [end |-> FALSE, response |-> NoResponse, project |-> selected]

\* The first GraphQL query and the selection of the project.
QueryProjects ==
    /\ pc = "start"
    /\ op = "get_repo_project_todo_items"
    /\ \E r \in Outcomes(ProjectBodies) :
        /\ calls' = Append(calls, Call("projects", Null, r))
        /\ upstream' = r
        /\ CASE r.net = "silent" ->
                  pc' = "blocked" /\ UNCHANGED <<response, project_nodes, selected_project>>
             [] r.net = "error" ->
                  /\ pc' = "done"
                  /\ response' = Unhandled
                  /\ UNCHANGED <<project_nodes, selected_project>>
             [] r.net = "response" /\ ~StatusOk(r.status) ->
                  /\ pc' = "done"
                  /\ response' = UpstreamError(r)
                  /\ UNCHANGED <<project_nodes, selected_project>>
             [] OTHER ->
                  LET nodes == ProjectNodesOf(r.body)
                      res == Resolve(project_title_filter, nodes)
                  IN  /\ project_nodes' = IF nodes.t = "raise" THEN project_nodes ELSE nodes
                      /\ selected_project' = res.project
                      /\ response' = res.response
                      /\ pc' = IF res.end THEN "done" ELSE "items"
    /\ UNCHANGED <<op, project_title_filter, commits, i, result>>

\* A variant without the break: the last Status value wins.
RECURSIVE StatusOfLast(_)
StatusOfLast(fields) ==
    IF fields = <<>> THEN Null
    ELSE LET field == fields[Len(fields)]
             name == Lower(Get(Get(field, "field", EmptyObj), "name", EmptyStr))
         IN  IF name.t = "raise" THEN Raise
             ELSE IF name = Str(<<"s", "t", "a", "t", "u", "s">>)
             THEN Get(field, "name", Null)
             ELSE StatusOfLast(SubSeq(fields, 1, Len(fields) - 1))

\* The inner for loop with its break: the option name of the first field
\* value whose field name is "status" in lower case, Null when there is
\* none, Raise when a name cannot be lowered.
RECURSIVE StatusOf(_)
StatusOf(fields) ==
    IF fields = <<>> THEN Null
    ELSE LET field == Head(fields)
             name == Lower(Get(Get(field, "field", EmptyObj), "name", EmptyStr))
         IN  IF name.t = "raise" THEN Raise
             ELSE IF name = Str(<<"s", "t", "a", "t", "u", "s">>)
             THEN Get(field, "name", Null)
             ELSE StatusOf(Tail(fields))

\* status == "Todo"
IsTodo(status) == status = Str(<<"T", "o", "d", "o">>)

\* The record appended for an item whose status is "Todo".
TodoEntry(item) ==
    LET content == Get(item, "content", EmptyObj)
    IN  IF content.t /= "obj" THEN Raise
        ELSE Obj([id |-> Get(item, "id", Null),
                  title |-> Get(content, "title", Null),
                  number |-> Get(content, "number", Null),
                  state |-> Get(content, "state", Null),
                  url |-> Get(content, "url", Null)])

\* The for loop over items: the list todo_items, or Raise.
RECURSIVE TodoItems(_)
TodoItems(items) ==
    IF items = <<>> THEN List(<<>>)
    ELSE LET item == Head(items)
             fields == Get(Get(item, "fieldValues", EmptyObj), "nodes", List(<<>>))
         IN  IF fields.t /= "list" THEN Raise
             ELSE LET status == StatusOf(fields.v)
                  IN  IF status.t = "raise" THEN Raise
                      ELSE IF IsTodo(status)
                      THEN LET entry == TodoEntry(item)
                               rest == TodoItems(Tail(items))
                           IN  IF entry.t = "raise" \/ rest.t = "raise" THEN Raise
                               ELSE List(<<entry>> \o rest.v)
                      ELSE TodoItems(Tail(items))

\* Lines 255-279: the value the handler returns for an item document, or Raise.
TodoResult(body) ==
    LET project_data == Get(Get(body, "data", EmptyObj), "node", EmptyObj)
        items == Get(Get(project_data, "items", EmptyObj), "nodes", List(<<>>))
    IN  IF items.t /= "list" THEN Raise
        ELSE LET todo_items == TodoItems(items.v)
             IN  IF todo_items.t = "raise" THEN Raise
                 ELSE Obj([project_title |-> Get(project_data, "title", Null),
                           todo_items |-> todo_items])

\* The second GraphQL query and the Todo filter.
FetchItems(bodies) ==
    /\ pc = "items"
    /\ \E r \in Outcomes(bodies) :
        /\ calls' = Append(calls, Call("items", Index(selected_project, "id"), r))
        /\ upstream' = r
        /\ CASE r.net = "silent" -> pc' = "blocked" /\ response' = response
             [] r.net = "error" -> pc' = "done" /\ response' = Unhandled
             [] r.net = "response" /\ ~StatusOk(r.status) ->
                  pc' = "done" /\ response' = UpstreamError(r)
             [] OTHER ->
                  LET value == TodoResult(r.body)
                  IN  /\ pc' = "done"
                      /\ response' = IF value.t = "raise" THEN Unhandled ELSE Ok(value)
    /\ UNCHANGED <<op, project_title_filter, commits, i, result, project_nodes,
                   selected_project>>

QueryItems == FetchItems(ItemBodies)
QueryTodoItems == FetchItems(TodoItemBodies)

(***************************************************************************)
(* The whole-request specification: one request to any of the handlers.   *)
(***************************************************************************)
Init ==
    /\ op \in AllOps
    /\ project_title_filter \in
           IF op = "get_repo_project_todo_items" THEN TitleFilters ELSE {Null}
    /\ pc = "start"
    /\ commits = List(<<>>)
    /\ i = 1
    /\ result = <<>>
    /\ project_nodes = List(<<>>)
    /\ selected_project = Null
    /\ upstream = NoAnswer
    /\ calls = <<>>
    /\ response = NoResponse

Next ==
    \/ GetCommitsRaw
    \/ ListForDiff
    \/ ListForMessages
    \/ DetailForDiff
    \/ DetailForMessages
    \/ ReturnResult
    \/ QueryProjects
    \/ QueryItems

Spec == Init /\ [][Next]_vars

(***************************************************************************)
(* The Todo-filter specification: the handler has selected a project and   *)
(* issues the item query.                                                  *)
(***************************************************************************)
InitTodo ==
    /\ op = "get_repo_project_todo_items"
    /\ project_title_filter = Null
    /\ pc = "items"
    /\ commits = List(<<>>)
    /\ i = 1
    /\ result = <<>>
    /\ project_nodes = List(<<ProjectNode(1, Sprint)>>)
    /\ selected_project = ProjectNode(1, Sprint)
    /\ upstream = [net |-> "response", status |-> 200,
                   body |-> Obj([data |-> Obj([repository |-> Obj([projectsV2 |->
                                Obj([nodes |-> List(<<ProjectNode(1, Sprint)>>)])])])])]
    /\ calls = <<Call("projects", Null, upstream)>>
    /\ response = NoResponse

NextTodo == QueryTodoItems

SpecTodo == InitTodo /\ [][NextTodo]_vars

(***************************************************************************)
(* The patch-extraction specification: get_commit_messages_and_changes has *)
(* fetched a list of one commit and fetches its detail.                    *)
(***************************************************************************)
InitPatch ==
    /\ op = "get_commit_messages_and_changes"
    /\ project_title_filter = Null
    /\ pc = "loop"
    /\ commits = List(<<CommitRecord(1, "sha")>>)
    /\ i = 1
    /\ result = <<>>
    /\ project_nodes = List(<<>>)
    /\ selected_project = Null
    /\ upstream = [net |-> "response", status |-> 200, body |-> commits]
    /\ calls = <<Call("list", Null, upstream)>>
    /\ response = NoResponse

DetailForPatches == FetchDetail("get_commit_messages_and_changes", PatchDetailBodies)

NextPatch ==
    \/ DetailForPatches
    \/ ReturnResult

SpecPatch == InitPatch /\ [][NextPatch]_vars

(***************************************************************************)
(* The whole-request specification with the scheduling the server gives:   *)
(* a handler that can take its next step takes it.                         *)
(***************************************************************************)
FairSpec == Spec /\ WF_vars(Next)

(***************************************************************************)
(* Properties.                                                             *)
(***************************************************************************)
\* How many elements of K are at most n: the place of n among K in order.
Rank(K, n) == Cardinality({m \in K : m <= n})

LastCall == calls[Len(calls)]
Answered(c) == c.net = "response"
Failed(c) == c.net = "error" \/ (c.net = "response" /\ c.status /= 200)
ShaAt(n) == Get(commits.v[n], "sha", Null)
AllCarrySha == \A n \in 1..Len(commits.v) : ShaAt(n).t = "str" /\ ShaAt(n).v /= <<>>
\* The positions of the list whose detail fetch was answered with 200.
DetailSucceeded ==
    {n \in 1..Len(commits.v) :
        \E k \in 1..Len(calls) :
            calls[k].kind = "detail" /\ calls[k].arg = ShaAt(n) /\ calls[k].status = 200}
ListSucceeded == calls /= <<>> /\ calls[1].kind = "list" /\ calls[1].status = 200

\* C1: when get_commits_with_diff has fetched a list whose records all carry
\* a sha and every detail call was answered, the request ends with a list
\* that holds, in list order, exactly the records whose detail fetch was
\* answered with 200, each with the sha, commit and author of its record; an
\* empty list gives an empty output.
C1_OutputIsSucceededSubsequence ==
    (op = "get_commits_with_diff" /\ pc = "done" /\ ListSucceeded /\ AllCarrySha
        /\ \A k \in 1..Len(calls) : Answered(calls[k]))
    => /\ response.kind = "ok"
       /\ response.detail.t = "list"
       /\ Len(response.detail.v) = Cardinality(DetailSucceeded)
       /\ Len(calls) = Len(commits.v) + 1
       /\ \A n \in DetailSucceeded :
            LET entry == response.detail.v[Rank(DetailSucceeded, n)]
            IN  /\ entry.v.sha = ShaAt(n)
                /\ entry.v.commit = commits.v[n].v.commit
                /\ entry.v.author = commits.v[n].v.author

\* A list of two commits, the first detail fetch refused, the second one
\* answered: the output is the second commit alone.
C1_Witness ==
    /\ op = "get_commits_with_diff" /\ pc = "done" /\ AllCarrySha
    /\ Len(commits.v) = 2
    /\ Len(calls) = 3 /\ calls[2].status = 403 /\ calls[3].status = 200
    /\ response.kind = "ok" /\ Len(response.detail.v) = 1
    /\ response.detail.v[1].v.sha = Sha(2)

\* C2: in both aggregate handlers, when the list fetch is answered with a
\* status other than 200 the request ends with an HTTPException with that
\* status and that body; when the list fetch fails in any way no detail call
\* is issued and no list of commits is returned.
C2_ListFailureEndsRequest ==
    (op \in AggregateOps /\ calls /= <<>> /\ Failed(calls[1]))
    => /\ pc = "done"
       /\ Len(calls) = 1
       /\ result = <<>>
       /\ response.kind /= "ok"
       /\ Answered(calls[1]) =>
            /\ response.kind = "HTTPException"
            /\ response.status_code = upstream.status
            /\ response.detail = upstream.body

\* The list fetch of an aggregate handler answered with 403.
C2_Witness ==
    /\ op \in AggregateOps /\ pc = "done" /\ Len(calls) = 1
    /\ upstream.status = 403
    /\ response = HTTPException(403, Obj([message |-> Str(<<"rate limit exceeded">>)]))

C4_EveryRequestCompletes == <>(pc = "done")

\* Two characters that are the same letter, whatever their case.
SameLetter(a, b) ==
    a = b \/ \E n \in 1..Len(UpperChars) : {a, b} = {UpperChars[n], LowerChars[n]}

\* The word occurs in the text, case ignored.
OccursIgnoringCase(word, text) ==
    \E off \in 0..Len(text) :
        /\ off + Len(word) <= Len(text)
        /\ \A k \in 1..Len(word) : SameLetter(word[k], text[off + k])

\* The project query was answered with 200 and a project list was read
\* from the answer.
ProjectListRead ==
    /\ op = "get_repo_project_todo_items"
    /\ calls /= <<>> /\ calls[1].status = 200
    /\ ~(Len(calls) = 1 /\ response.kind = "unhandled")
NotFound ==
    pc = "done" /\ Len(calls) = 1 /\ response.kind = "HTTPException"
        /\ response.status_code = 404
\* The handler went on to the item query with the project at position n.
Selected(n) ==
    /\ selected_project = project_nodes.v[n]
    /\ pc = "items" \/ Len(calls) = 2

\* C5: after a successful project query an empty project list ends the
\* request with 404; with a title filter the selected project is the first
\* in list order whose title contains the filter, case ignored, and the
\* request ends with 404 when there is none; without a filter the first
\* project is selected.
C5_ProjectResolution ==
    ProjectListRead =>
        IF project_nodes.t /= "list" \/ project_nodes.v = <<>> THEN NotFound
        ELSE IF project_title_filter.t = "null" THEN Selected(1)
        ELSE LET matching ==
                    {n \in 1..Len(project_nodes.v) :
                        OccursIgnoringCase(project_title_filter.v,
                                           project_nodes.v[n].v.title.v)}
             IN  IF matching = {} THEN NotFound /\ selected_project = Null
                 ELSE \E n \in matching : Selected(n) /\ \A m \in matching : n <= m

\* The filter "OA" and the projects Sprint, Road: the second one is selected.
C5_Witness ==
    /\ pc = "items"
    /\ project_title_filter = Str(<<"O", "A">>)
    /\ Len(project_nodes.v) = 2
    /\ project_nodes.v[1].v.title = Str(Sprint)
    /\ selected_project = ProjectNode(2, Roadmap)

\* The items of the answer to the item query.
ItemsOf(body) == body.v.data.v.node.v.items.v.nodes.v
FieldValuesOf(item) == item.v.fieldValues.v.nodes.v
IsStatusField(fv) == Len(fv.v.field.v.name.v) = 6
                         /\ OccursIgnoringCase(fv.v.field.v.name.v, Status)
\* The first Status value of the item is "Todo".
FirstStatusIsTodo(item) ==
    \E k \in 1..Len(FieldValuesOf(item)) :
        /\ IsStatusField(FieldValuesOf(item)[k])
        /\ \A j \in 1..(k - 1) : ~IsStatusField(FieldValuesOf(item)[j])
        /\ FieldValuesOf(item)[k].v.name = Str(Todo)

\* C6: the request ends with the items whose first Status field value has
\* the option "Todo" exactly, and no others, in the order of the item list,
\* each with the id and the content of its item.
C6_TodoFilter ==
    (pc = "done" /\ Len(calls) = 2 /\ LastCall.kind = "items" /\ LastCall.status = 200)
    => /\ response.kind = "ok"
       /\ LET items == ItemsOf(upstream.body)
              todo == {n \in 1..Len(items) : FirstStatusIsTodo(items[n])}
              todo_items == response.detail.v.todo_items.v
          IN  /\ Len(todo_items) = Cardinality(todo)
              /\ \A n \in todo :
                    LET entry == todo_items[Rank(todo, n)].v
                    IN  /\ entry.id = items[n].v.id
                        /\ entry.title = items[n].v.content.v.title
                        /\ entry.number = items[n].v.content.v.number
                        /\ entry.state = items[n].v.content.v.state
                        /\ entry.url = items[n].v.content.v.url

\* Two items: the first with Status "todo" and then a duplicate Status
\* "Todo", the second with another field and then Status "Todo". The second
\* alone is retained.
C6_Witness ==
    /\ pc = "done" /\ Len(calls) = 2 /\ LastCall.status = 200
    /\ Len(ItemsOf(upstream.body)) = 2
    /\ FieldValuesOf(ItemsOf(upstream.body)[1])
          = <<FieldValue(Status, TodoLower), FieldValue(Status, Todo)>>
    /\ FieldValuesOf(ItemsOf(upstream.body)[2])
          = <<FieldValue(Priority, Todo), FieldValue(Status, Todo)>>
    /\ Len(response.detail.v.todo_items.v) = 1
    /\ response.detail.v.todo_items.v[1].v.id = ItemId(2)

\* C7: for a commit detail answered with 200, changes holds exactly the
\* files whose patch is a non-empty string, in the order of the files, each
\* with its filename and patch, and message is the nested commit message,
\* the empty string when the detail has none.
C7_PatchExtraction ==
    (op = "get_commit_messages_and_changes" /\ Len(calls) = 2 /\ LastCall.status = 200)
    => /\ Len(result) = 1
       /\ pc = "done" => response = Ok(List(result))
       /\ LET detail == upstream.body.v
              files == IF "files" \in DOMAIN detail THEN detail.files.v ELSE <<>>
              patched == {n \in 1..Len(files) :
                            /\ "patch" \in DOMAIN files[n].v
                            /\ files[n].v.patch.t = "str"
                            /\ files[n].v.patch.v /= <<>>}
              changes == result[1].v.changes.v
          IN  /\ Len(changes) = Cardinality(patched)
              /\ \A n \in patched :
                    changes[Rank(patched, n)]
                        = Obj([filename |-> files[n].v.filename, patch |-> files[n].v.patch])
              /\ result[1].v.message =
                    IF "commit" \in DOMAIN detail /\ "message" \in DOMAIN detail.commit.v
                    THEN detail.commit.v.message
                    ELSE EmptyStr

\* A detail of two files, the first with an empty patch, the second with a
\* patch, and no commit key: changes is the second file, message is empty.
C7_Witness ==
    /\ op = "get_commit_messages_and_changes" /\ pc = "done" /\ Len(calls) = 2
    /\ LastCall.status = 200
    /\ upstream.body = Obj([files |-> List(<<File(1, [patch |-> EmptyStr]),
                                             File(2, [patch |-> Patch])>>)])
    /\ response.detail.v[1] =
          Obj([message |-> EmptyStr,
               changes |-> List(<<Obj([filename |-> FileName(2), patch |-> Patch])>>)])

RequiredCalls == {"list", "projects", "items"}
\* The request has ended with the error the upstream answered.
EndedWithUpstreamError ==
    pc = "done" /\ response = HTTPException(upstream.status, upstream.body)

\* C8 as stated: a required call ends the request with an upstream error
\* exactly when its status is outside 200..299.
C8_ErrorIffNot2xx ==
    (calls /= <<>> /\ LastCall.kind \in RequiredCalls /\ Answered(LastCall))
    => (EndedWithUpstreamError <=> LastCall.status \notin 200..299)

\* C8: a required call ends the request with an upstream error, carrying the
\* status code and the body of the answer, exactly when its status is not
\* 200; an HTTPException after a 200 is a not-found error of the handler.
C8_ErrorIffNot200 ==
    (calls /= <<>> /\ LastCall.kind \in RequiredCalls /\ Answered(LastCall))
    => /\ EndedWithUpstreamError <=> LastCall.status /= 200
       /\ (LastCall.status = 200 /\ response.kind = "HTTPException")
            => /\ response.status_code = 404
               /\ \/ response.detail = NoProjectMessage
                  \/ /\ project_title_filter.t = "str"
                     /\ response.detail = NoMatchMessage(project_title_filter)

\* The item query answered with 201: the request ends with status 201.
C8_Witness ==
    /\ pc = "done" /\ Len(calls) = 2 /\ LastCall.kind = "items"
    /\ LastCall.status = 201
    /\ response.kind = "HTTPException" /\ response.status_code = 201
    /\ response.detail = upstream.body

\* The position in the commit list of the commit a detail call asks for.
PositionOf(sha) == CHOOSE n \in 1..Len(commits.v) : ShaAt(n) = sha

\* C9: a commit request issues the list call first and then, only after the
\* list call was answered with 200, at most one detail call per commit, in
\* list order; a Todo request issues the project query and then at most the
\* item query, for the selected project, only after the project query was
\* answered with 200 and a project was selected.
C9_CallsOnceInOrder ==
    /\ op \in CommitOps =>
         /\ \A k \in 1..Len(calls) : calls[k].kind = (IF k = 1 THEN "list" ELSE "detail")
         /\ Len(calls) > 1 => op \in AggregateOps /\ calls[1].status = 200
         /\ Len(calls) <= Len(commits.v) + 1
         /\ \A k \in 2..Len(calls) :
              /\ \E n \in 1..Len(commits.v) : ShaAt(n) = calls[k].arg
              /\ \A j \in 2..(k - 1) : PositionOf(calls[j].arg) < PositionOf(calls[k].arg)
              /\ k < Len(calls) => Answered(calls[k])
    /\ op = "get_repo_project_todo_items" =>
         /\ Len(calls) <= 2
         /\ Len(calls) >= 1 => calls[1].kind = "projects"
         /\ Len(calls) = 2 =>
              /\ calls[2].kind = "items"
              /\ calls[1].status = 200
              /\ \E n \in 1..Len(project_nodes.v) : selected_project = project_nodes.v[n]
              /\ calls[2].arg = selected_project.v.id
         /\ (Len(calls) = 1 /\ pc = "done") => selected_project = Null

\* Two commits, the first detail fetch refused: the second detail call is
\* issued and the first is not repeated.
C9_Witness ==
    /\ op \in AggregateOps /\ Len(commits.v) = 2 /\ Len(calls) = 3
    /\ calls[2].arg = Sha(1) /\ calls[2].status = 403
    /\ calls[3].arg = Sha(2)

\* C10: a call answered with 200 never ends the request with an exception
\* no handler catches, whatever optional field the answer lacks.
C10_MissingFieldNeverFails ==
    (calls /= <<>> /\ Answered(LastCall) /\ LastCall.status = 200)
    => response.kind /= "unhandled"

====
